---- MODULE Spec2Model ----
(***************************************************************************)
(* THOR patch archive reader (src/thor/mod.rs): the nom parsers of the     *)
(* header, the table descriptors and the entries, parse_thor_patch, and    *)
(* ThorArchive::new / read_file_content over a seekable byte source.       *)
(*                                                                         *)
(* Bytes are the integers 0..255.  A Rust integer wider than 31 bits       *)
(* (u32, i32 as u64, usize) is kept as its little-endian byte word, so     *)
(* that wrap-around and sign extension are those of the machine.           *)
(***************************************************************************)
EXTENDS Integers, Sequences, FiniteSets, TLC

(* ----------------------------- bounds ---------------------------------- *)

\* Longest list of whole entry records put in a multi-file table.
MaxEntries == 2
\* Number of read_file_content calls followed after new.
MaxReads == 2

(* ------------------------- machine words ------------------------------- *)

Byte == 0..255

Zeros(n) == [i \in 1..n |-> 0]

Ones(n) == [i \in 1..n |-> 255]

\* The n-byte little-endian word of a natural number below 2^31.
Word(v, n) ==
    [i \in 1..n |-> CASE i = 1 -> v % 256
                      [] i = 2 -> (v \div 256) % 256
                      [] i = 3 -> (v \div 65536) % 256
                      [] i = 4 -> (v \div 16777216) % 256
                      [] OTHER -> 0]

\* A word whose value is below 2^31 (it fits the model's integers).
IsSmall(w) ==
    /\ \A i \in 5..Len(w) : w[i] = 0
    /\ Len(w) >= 4 => w[4] < 128

Small(w) ==
    LET b(i) == IF i <= Len(w) THEN w[i] ELSE 0
    IN  b(1) + 256 * b(2) + 65536 * b(3) + 16777216 * b(4)

\* a - b on words of equal length, modulo 2^(8 * Len), with the final borrow.
RECURSIVE SubFrom(_, _, _, _)
SubFrom(a, b, i, borrow) ==
    IF i > Len(a) THEN [val |-> <<>>, borrow |-> borrow]
    ELSE LET d    == a[i] - b[i] - borrow
             rest == SubFrom(a, b, i + 1, IF d < 0 THEN 1 ELSE 0)
         IN  [val    |-> <<(d + 256) % 256>> \o rest.val,
              borrow |-> rest.borrow]

WSub(a, b) == SubFrom(a, b, 1, 0)

\* a < b on unsigned words of equal length.
WLt(a, b) == WSub(a, b).borrow = 1

\* `x as u64` / `x as usize` of a u32: zero extension.
ZeroExtend(w) == w \o Zeros(8 - Len(w))

\* `x as u64` / `x as usize` of an i32: sign extension.
SignExtend(w) == w \o (IF w[4] >= 128 THEN Ones(4) ELSE Zeros(4))

(* ------------------------- nom combinators ----------------------------- *)
(* A parser takes the buffer and the number of bytes consumed so far and   *)
(* returns IResult: Ok with the new position and the value, or Err::Error, *)
(* Err::Incomplete (the streaming take!/tag!), Err::Failure.               *)

Ok(pos, val) == [tag |-> "Ok", pos |-> pos, val |-> val]

Err(kind, pos) == [tag |-> kind, pos |-> pos, val |-> <<>>]

Remaining(buf, pos) == Len(buf) - pos

Slice(buf, pos, n) == SubSeq(buf, pos + 1, pos + n)

\* nom::number::complete::le_u8
le_u8(buf, pos) ==
    IF Remaining(buf, pos) < 1 THEN Err("Error", pos)
    ELSE Ok(pos + 1, buf[pos + 1])

\* nom::number::complete::le_u32: the four bytes, kept as a word.
le_u32(buf, pos) ==
    IF Remaining(buf, pos) < 4 THEN Err("Error", pos)
    ELSE Ok(pos + 4, Slice(buf, pos, 4))

\* nom::number::complete::le_i32: the same four bytes, read as signed.
le_i32(buf, pos) ==
    IF Remaining(buf, pos) < 4 THEN Err("Error", pos)
    ELSE Ok(pos + 4, Slice(buf, pos, 4))

\* nom::number::complete::le_i16
le_i16(buf, pos) ==
    IF Remaining(buf, pos) < 2 THEN Err("Error", pos)
    ELSE LET u == buf[pos + 1] + 256 * buf[pos + 2]
         IN  Ok(pos + 2, IF u >= 32768 THEN u - 65536 ELSE u)

\* take!(n): the streaming take, Incomplete on a short input.
take(buf, pos, n) ==
    IF Remaining(buf, pos) < n THEN Err("Incomplete", pos)
    ELSE Ok(pos + n, Slice(buf, pos, n))

\* tag!(t): the streaming tag.
tag(buf, pos, t) ==
    LET m == IF Remaining(buf, pos) < Len(t) THEN Remaining(buf, pos) ELSE Len(t)
    IN  IF Slice(buf, pos, m) # SubSeq(t, 1, m) THEN Err("Error", pos)
        ELSE IF m < Len(t) THEN Err("Incomplete", pos)
        ELSE Ok(pos + Len(t), t)

(* ------------------------------ text ----------------------------------- *)
(* A String is the sequence of its Unicode scalar values.                  *)

IsCont(b) == b >= 128 /\ b <= 191

\* std::str::from_utf8, as take_str! applies it: the scalar values, or the
\* empty set when the bytes are not UTF-8.
RECURSIVE Utf8Decode(_, _)
Utf8Decode(bs, i) ==
    IF i > Len(bs) THEN {<<>>}
    ELSE LET b0 == bs[i]
             c(k) == IF i + k <= Len(bs) THEN bs[i + k] ELSE 0
             then(n, cp) == {<<cp>> \o r : r \in Utf8Decode(bs, i + n)}
         IN  IF b0 < 128 THEN then(1, b0)
             ELSE IF b0 >= 194 /\ b0 <= 223 /\ IsCont(c(1))
                  THEN then(2, (b0 - 192) * 64 + (c(1) - 128))
             ELSE IF /\ b0 >= 224 /\ b0 <= 239 /\ IsCont(c(1)) /\ IsCont(c(2))
                     /\ (b0 = 224 => c(1) >= 160)
                     /\ (b0 = 237 => c(1) <= 159)
                  THEN then(3, (b0 - 224) * 4096 + (c(1) - 128) * 64 + (c(2) - 128))
             ELSE IF /\ b0 >= 240 /\ b0 <= 244
                     /\ IsCont(c(1)) /\ IsCont(c(2)) /\ IsCont(c(3))
                     /\ (b0 = 240 => c(1) >= 144)
                     /\ (b0 = 244 => c(1) <= 143)
                  THEN then(4, (b0 - 240) * 262144 + (c(1) - 128) * 4096
                                + (c(2) - 128) * 64 + (c(3) - 128))
             ELSE {}

\* take_str!(n) = map_res!(take!(n), from_utf8)
take_str(buf, pos, n) ==
    LET t == take(buf, pos, n)
    IN  IF t.tag # "Ok" THEN t
        ELSE LET d == Utf8Decode(t.val, 1)
             IN  IF d = {} THEN Err("Error", pos)
                 ELSE Ok(t.pos, CHOOSE s \in d : TRUE)

\* windows-1252 (WHATWG): the scalar value of one byte.
Win1252Scalar(b) ==
    CASE b = 128 -> 8364 [] b = 130 -> 8218 [] b = 131 -> 402  [] b = 132 -> 8222
      [] b = 133 -> 8230 [] b = 134 -> 8224 [] b = 135 -> 8225 [] b = 136 -> 710
      [] b = 137 -> 8240 [] b = 138 -> 352  [] b = 139 -> 8249 [] b = 140 -> 338
      [] b = 142 -> 381  [] b = 145 -> 8216 [] b = 146 -> 8217 [] b = 147 -> 8220
      [] b = 148 -> 8221 [] b = 149 -> 8226 [] b = 150 -> 8211 [] b = 151 -> 8212
      [] b = 152 -> 732  [] b = 153 -> 8482 [] b = 154 -> 353  [] b = 155 -> 8250
      [] b = 156 -> 339  [] b = 158 -> 382  [] b = 159 -> 376
      [] OTHER -> b

\* decoder.decode(v, DecoderTrap::Strict): every byte has a scalar value in
\* the WHATWG table, so the strict decode of windows-1252 always succeeds.
string_from_win_1252(v) ==
    [ok |-> TRUE, val |-> [i \in 1..Len(v) |-> Win1252Scalar(v[i])]]

\* take_string_ansi!(n) = map_res!(take!(n), string_from_win_1252)
take_string_ansi(buf, pos, n) ==
    LET t == take(buf, pos, n)
    IN  IF t.tag # "Ok" THEN t
        ELSE LET d == string_from_win_1252(t.val)
             IN  IF d.ok THEN Ok(t.pos, d.val) ELSE Err("Error", pos)

(* ------------------------------ zlib ----------------------------------- *)
(* flate2's ZlibDecoder is outside the repository.  It is modelled on a    *)
(* stream of one stored block: the two header bytes 0x78 0x01, a length    *)
(* byte, that many literal bytes and a one-byte checksum.  As flate2's     *)
(* read_to_end does, a stream that merely ends early yields the bytes      *)
(* inflated so far; a bad header or checksum is an error.                  *)

RECURSIVE Sum(_, _)
Sum(bs, i) == IF i > Len(bs) THEN 0 ELSE bs[i] + Sum(bs, i + 1)

Checksum(bs) == (1 + Sum(bs, 1)) % 251

\* The stream that inflates to bs.
Deflate(bs) == <<120, 1, Len(bs)>> \o bs \o <<Checksum(bs)>>

\* ZlibDecoder::new(s).read_to_end(..)
Inflate(s) ==
    IF Len(s) = 0 THEN [ok |-> TRUE, val |-> <<>>]
    ELSE IF s[1] # 120 THEN [ok |-> FALSE, val |-> <<>>]
    ELSE IF Len(s) = 1 THEN [ok |-> TRUE, val |-> <<>>]
    ELSE IF s[2] # 1 THEN [ok |-> FALSE, val |-> <<>>]
    ELSE IF Len(s) = 2 THEN [ok |-> TRUE, val |-> <<>>]
    ELSE LET n == s[3]
         IN  IF Len(s) - 3 <= n
             THEN [ok |-> TRUE, val |-> SubSeq(s, 4, Len(s))]
             ELSE LET body == SubSeq(s, 4, 3 + n)
                  IN  IF s[4 + n] = Checksum(body)
                      THEN [ok |-> TRUE, val |-> body]
                      ELSE [ok |-> FALSE, val |-> <<>>]

(* ----------------------------- header ---------------------------------- *)

\* const HEADER_MAGIC: "ASSF (C) 2007 Aeomin DEV"
HEADER_MAGIC ==
    <<65, 83, 83, 70, 32, 40, 67, 41, 32, 50, 48, 48, 55, 32,
      65, 101, 111, 109, 105, 110, 32, 68, 69, 86>>

i16_to_mode(i) ==
    CASE i = 33 -> "SingleFile"
      [] i = 48 -> "MultipleFiles"
      [] OTHER  -> "Invalid"

\* If LSB is 1, the entry indicates a file deletion.
is_file_removed_whole_byte(flags) == flags = 1

is_file_removed(flags) == (flags % 2) = 1

\* `(file_count - 1) as usize` on the u32 just read.  With overflow checks
\* (a debug build) 0 - 1 panics; without them it wraps to 2^32 - 1.
file_count_minus_one(file_count, overflow_checks) ==
    IF file_count = Zeros(4)
    THEN IF overflow_checks THEN [panic |-> TRUE, val |-> Zeros(8)]
         ELSE [panic |-> FALSE, val |-> ZeroExtend(Ones(4))]
    ELSE [panic |-> FALSE, val |-> ZeroExtend(WSub(file_count, Word(1, 4)).val)]

ThorHeader(use_grf_merging, file_count, mode, target_grf_name) ==
    [use_grf_merging |-> use_grf_merging,
     file_count      |-> file_count,
     mode            |-> mode,
     target_grf_name |-> target_grf_name]

(* do_parse! runs its parsers in order and stops at the first that is not  *)
(* Ok.  Each parser below is written as that chain, one step a definition, *)
(* the last step first: a step takes the values parsed so far and the      *)
(* result of the parser just run.                                          *)

\* The value of parse_thor_header's do_parse!, once every field is parsed.
header_value(use_grf_merging, mode, target_grf_name, count) ==
    IF count.panic THEN Err("Panic", target_grf_name.pos)
    ELSE Ok(target_grf_name.pos,
            ThorHeader(use_grf_merging = 1, count.val, i16_to_mode(mode),
                       target_grf_name.val))

header_after_name(use_grf_merging, file_count, mode, target_grf_name, overflow_checks) ==
    IF target_grf_name.tag # "Ok" THEN target_grf_name
    ELSE header_value(use_grf_merging, mode, target_grf_name,
                      file_count_minus_one(file_count, overflow_checks))

header_after_name_size(buf, use_grf_merging, file_count, mode, target_grf_name_size, overflow_checks) ==
    IF target_grf_name_size.tag # "Ok" THEN target_grf_name_size
    ELSE header_after_name(use_grf_merging, file_count, mode,
                           take_str(buf, target_grf_name_size.pos,
                                    target_grf_name_size.val),
                           overflow_checks)

header_after_mode(buf, use_grf_merging, file_count, mode, overflow_checks) ==
    IF mode.tag # "Ok" THEN mode
    ELSE header_after_name_size(buf, use_grf_merging, file_count, mode.val,
                                le_u8(buf, mode.pos), overflow_checks)

header_after_file_count(buf, use_grf_merging, file_count, overflow_checks) ==
    IF file_count.tag # "Ok" THEN file_count
    ELSE header_after_mode(buf, use_grf_merging, file_count.val,
                           le_i16(buf, file_count.pos), overflow_checks)

header_after_use_grf_merging(buf, use_grf_merging, overflow_checks) ==
    IF use_grf_merging.tag # "Ok" THEN use_grf_merging
    ELSE header_after_file_count(buf, use_grf_merging.val,
                                 le_u32(buf, use_grf_merging.pos),
                                 overflow_checks)

header_after_magic(buf, magic, overflow_checks) ==
    IF magic.tag # "Ok" THEN magic
    ELSE header_after_use_grf_merging(buf, le_u8(buf, magic.pos), overflow_checks)

parse_thor_header(buf, pos, overflow_checks) ==
    header_after_magic(buf, tag(buf, pos, HEADER_MAGIC), overflow_checks)

(* ------------------------- table descriptors --------------------------- *)

single_file_table_value(pad) ==
    IF pad.tag # "Ok" THEN pad
    ELSE Ok(pad.pos, [kind |-> "SingleFile", file_table_offset |-> Zeros(8)])

parse_single_file_table(buf, pos) == single_file_table_value(take(buf, pos, 1))

multiple_files_table_value(file_table_compressed_size, file_table_offset) ==
    IF file_table_offset.tag # "Ok" THEN file_table_offset
    ELSE Ok(file_table_offset.pos,
            [kind |-> "MultipleFiles",
             file_table_compressed_size |-> SignExtend(file_table_compressed_size),
             file_table_offset |-> SignExtend(file_table_offset.val)])

multiple_files_table_after_size(buf, file_table_compressed_size) ==
    IF file_table_compressed_size.tag # "Ok" THEN file_table_compressed_size
    ELSE multiple_files_table_value(file_table_compressed_size.val,
                                    le_i32(buf, file_table_compressed_size.pos))

parse_multiple_files_table(buf, pos) ==
    multiple_files_table_after_size(buf, le_i32(buf, pos))

(* ------------------------------ entries -------------------------------- *)

ThorEntry(size_compressed, size_decompressed, relative_path, is_removed, offset) ==
    [size_compressed   |-> size_compressed,
     size_decompressed |-> size_decompressed,
     relative_path     |-> relative_path,
     is_removed        |-> is_removed,
     offset            |-> offset]

single_file_entry_removed(size_compressed, size_decompressed, relative_path) ==
    IF relative_path.tag # "Ok" THEN relative_path
    ELSE Ok(relative_path.pos,
            ThorEntry(SignExtend(size_compressed), SignExtend(size_decompressed),
                      relative_path.val, TRUE, Zeros(8)))

\* The value of parse_single_file_entry's do_parse!.
single_file_entry_value(size_compressed, size_decompressed, relative_path) ==
    IF relative_path.tag # "Ok" THEN relative_path
    ELSE Ok(relative_path.pos,
            ThorEntry(SignExtend(size_compressed), SignExtend(size_decompressed),
                      relative_path.val, FALSE, Zeros(8)))

single_file_entry_after_path_size(buf, size_compressed, size_decompressed, relative_path_size) ==
    IF relative_path_size.tag # "Ok" THEN relative_path_size
    ELSE single_file_entry_value(
             size_compressed, size_decompressed,
             take_string_ansi(buf, relative_path_size.pos, relative_path_size.val))

single_file_entry_after_size_decompressed(buf, size_compressed, size_decompressed) ==
    IF size_decompressed.tag # "Ok" THEN size_decompressed
    ELSE single_file_entry_after_path_size(buf, size_compressed,
                                           size_decompressed.val,
                                           le_u8(buf, size_decompressed.pos))

single_file_entry_after_size_compressed(buf, size_compressed) ==
    IF size_compressed.tag # "Ok" THEN size_compressed
    ELSE single_file_entry_after_size_decompressed(
             buf, size_compressed.val, le_i32(buf, size_compressed.pos))

parse_single_file_entry(buf, pos) ==
    single_file_entry_after_size_compressed(buf, le_i32(buf, pos))

\* take_if_not_removed!(parser, flags): `parsed` is the parser's result at pos.
take_if_not_removed(parsed, pos, flags) ==
    IF is_file_removed(flags) THEN Ok(pos, Zeros(4)) ELSE parsed

\* The value of parse_multiple_files_entry's do_parse!.
multiple_files_entry_value(relative_path, flags, offset, size_compressed, size_decompressed) ==
    IF size_decompressed.tag # "Ok" THEN size_decompressed
    ELSE Ok(size_decompressed.pos,
            ThorEntry(SignExtend(size_compressed),
                      SignExtend(size_decompressed.val),
                      relative_path,
                      is_file_removed(flags),
                      ZeroExtend(offset)))

multiple_files_entry_after_size_compressed(buf, relative_path, flags, offset, size_compressed) ==
    IF size_compressed.tag # "Ok" THEN size_compressed
    ELSE multiple_files_entry_value(
             relative_path, flags, offset, size_compressed.val,
             take_if_not_removed(le_i32(buf, size_compressed.pos),
                                 size_compressed.pos, flags))

multiple_files_entry_after_offset(buf, relative_path, flags, offset) ==
    IF offset.tag # "Ok" THEN offset
    ELSE multiple_files_entry_after_size_compressed(
             buf, relative_path, flags, offset.val,
             take_if_not_removed(le_i32(buf, offset.pos), offset.pos, flags))

multiple_files_entry_after_flags(buf, relative_path, flags) ==
    IF flags.tag # "Ok" THEN flags
    ELSE multiple_files_entry_after_offset(
             buf, relative_path, flags.val,
             take_if_not_removed(le_u32(buf, flags.pos), flags.pos, flags.val))

multiple_files_entry_after_path(buf, relative_path) ==
    IF relative_path.tag # "Ok" THEN relative_path
    ELSE multiple_files_entry_after_flags(buf, relative_path.val,
                                          le_u8(buf, relative_path.pos))

multiple_files_entry_after_path_size(buf, relative_path_size) ==
    IF relative_path_size.tag # "Ok" THEN relative_path_size
    ELSE multiple_files_entry_after_path(
             buf,
             take_string_ansi(buf, relative_path_size.pos, relative_path_size.val))

parse_multiple_files_entry(buf, pos) ==
    multiple_files_entry_after_path_size(buf, le_u8(buf, pos))

\* HashMap::new()
EmptyMap == [p \in {} |-> <<>>]

insert_keep_first(acc, item) ==
    [p \in DOMAIN acc \cup {item.relative_path} |->
        IF p \in DOMAIN acc THEN acc[p] ELSE item]

\* acc.insert(item.relative_path.clone(), item)
insert(acc, item) ==
    [p \in DOMAIN acc \cup {item.relative_path} |->
        IF p = item.relative_path THEN item ELSE acc[p]]

\* The loop of fold_many1 after its first item: it stops at Err::Error with
\* what it has folded, and passes on Incomplete and Failure.  `log` records
\* each item with its byte range; r is the item parser's result at pos.
RECURSIVE fold_many(_, _, _, _, _)
fold_many(buf, pos, acc, log, r) ==
    IF r.tag = "Error" THEN Ok(pos, [entries |-> acc, decoded |-> log])
    ELSE IF r.tag # "Ok" THEN r
    ELSE IF r.pos = pos THEN Err("Failure", pos)
    ELSE fold_many(buf, r.pos, insert(acc, r.val),
                   Append(log, [entry |-> r.val, start |-> pos, stop |-> r.pos]),
                   parse_multiple_files_entry(buf, r.pos))

\* fold_many1 needs a first item.
fold_many1(buf, pos, first) ==
    IF first.tag = "Error" THEN Err("Error", pos)
    ELSE IF first.tag # "Ok" THEN first
    ELSE fold_many(buf, first.pos, insert(EmptyMap, first.val),
                   <<[entry |-> first.val, start |-> pos, stop |-> first.pos]>>,
                   parse_multiple_files_entry(buf, first.pos))

\* fold_many1!(parse_multiple_files_entry, HashMap::new(), insert)
parse_multiple_files_entries(buf, pos) ==
    fold_many1(buf, pos, parse_multiple_files_entry(buf, pos))

(* ------------------------- parse_thor_patch ---------------------------- *)

ThorContainer(header, table, entries) ==
    [header |-> header, table |-> table, entries |-> entries]

\* What a failed open leaves: no container.
NoContainer ==
    ThorContainer(ThorHeader(FALSE, Zeros(8), "Invalid", <<>>),
                  [kind |-> "None"], EmptyMap)

Parsed(kind, container, decoded) ==
    [tag |-> kind, container |-> container, decoded |-> decoded]

Failed(kind) == Parsed(kind, NoContainer, <<>>)

\* The SingleFile arm of parse_thor_patch.
single_file_container(header, table, entry) ==
    IF entry.tag # "Ok" THEN Failed(entry.tag)
    ELSE Parsed("Ok",
                ThorContainer(header, table, insert(EmptyMap, entry.val)),
                <<>>)

single_file_after_table(buf, header, table) ==
    IF table.tag # "Ok" THEN Failed(table.tag)
    ELSE single_file_container(header, table.val,
                               parse_single_file_entry(buf, table.pos))

\* The MultipleFiles arm of parse_thor_patch.
multiple_files_container(header, table, entries) ==
    IF entries.tag # "Ok" THEN Failed("Failure")
    ELSE Parsed("Ok", ThorContainer(header, table, entries.val.entries),
                entries.val.decoded)

multiple_files_after_inflate(header, table, decompressed_table) ==
    IF ~decompressed_table.ok THEN Failed("Failure")
    ELSE multiple_files_container(
             header, table,
             parse_multiple_files_entries(decompressed_table.val, 0))

\* table.file_table_offset -= consumed_bytes, then &output[offset..]: slicing
\* past the end of `output` panics.
multiple_files_after_rebase(buf, header, table, pos, file_table_offset) ==
    IF ~IsSmall(file_table_offset)
          \/ Small(file_table_offset) > Remaining(buf, pos)
    THEN Failed("Panic")
    ELSE multiple_files_after_inflate(
             header,
             [table EXCEPT !.file_table_offset = file_table_offset],
             Inflate(SubSeq(buf, pos + Small(file_table_offset) + 1, Len(buf))))

multiple_files_after_table(buf, header, table, consumed_bytes) ==
    IF table.tag # "Ok" THEN Failed(table.tag)
    ELSE IF WLt(table.val.file_table_offset, consumed_bytes)
         THEN Failed("Failure")
    ELSE multiple_files_after_rebase(
             buf, header, table.val, table.pos,
             WSub(table.val.file_table_offset, consumed_bytes).val)

multiple_files_consumed(buf, header, table) ==
    multiple_files_after_table(buf, header, table, Word(table.pos, 8))

thor_patch_after_header(input, header) ==
    IF header.tag # "Ok" THEN Failed(header.tag)
    ELSE CASE header.val.mode = "Invalid" -> Failed("Failure")
           [] header.val.mode = "SingleFile" ->
                  single_file_after_table(
                      input, header.val,
                      parse_single_file_table(input, header.pos))
           [] header.val.mode = "MultipleFiles" ->
                  multiple_files_consumed(
                      input, header.val,
                      parse_multiple_files_table(input, header.pos))

parse_thor_patch(input, overflow_checks) ==
    thor_patch_after_header(input, parse_thor_header(input, 0, overflow_checks))

(* ---------------------------- ThorArchive ------------------------------ *)
(* The reader `obj` is its bytes and its cursor, a u64.                    *)

\* a + b on words of equal length, modulo 2^(8 * Len): u64 addition, as a
\* relative seek would do it and as the claims below need it.
RECURSIVE AddFrom(_, _, _, _)
AddFrom(a, b, i, carry) ==
    IF i > Len(a) THEN <<>>
    ELSE LET d == a[i] + b[i] + carry
         IN  <<d % 256>> \o AddFrom(a, b, i + 1, d \div 256)

WAdd(a, b) == AddFrom(a, b, 1, 0)

\* obj.read_to_end(&mut buf): the bytes from the cursor on; the cursor ends
\* at the end of the source.
read_to_end(o) ==
    [buf |-> IF IsSmall(o.pos) /\ Small(o.pos) <= Len(o.bytes)
             THEN SubSeq(o.bytes, Small(o.pos) + 1, Len(o.bytes))
             ELSE <<>>,
     obj |-> IF IsSmall(o.pos) /\ Small(o.pos) <= Len(o.bytes)
             THEN [o EXCEPT !.pos = Word(Len(o.bytes), 8)]
             ELSE o]

\* ThorArchive::new: any parse result other than Ok is an io::Error.
archive_of(parsed, o) ==
    [status    |-> CASE parsed.tag = "Ok"    -> "open"
                     [] parsed.tag = "Panic" -> "panic"
                     [] OTHER                -> "err",
     container |-> parsed.container,
     decoded   |-> parsed.decoded,
     obj       |-> o]

new_after_read(read, overflow_checks) ==
    archive_of(parse_thor_patch(read.buf, overflow_checks), read.obj)

new(o, overflow_checks) == new_after_read(read_to_end(o), overflow_checks)

\* self.container.header.file_count
file_count(c) == c.header.file_count

\* self.container.header.target_grf_name.clone()
target_grf_name(c) == c.header.target_grf_name

\* self.container.entries.get(file_path): Option<&ThorEntry>
get_file_entry(c, file_path) ==
    IF file_path \in DOMAIN c.entries
    THEN [some |-> TRUE, entry |-> c.entries[file_path]]
    ELSE [some |-> FALSE, entry |-> ThorEntry(Zeros(8), Zeros(8), <<>>, FALSE, Zeros(8))]

\* self.container.entries.values()
get_entries(c) == {c.entries[p] : p \in DOMAIN c.entries}

seek_current(o, offset) == [o EXCEPT !.pos = WAdd(o.pos, offset)]

\* self.obj.seek(SeekFrom::Start(offset))
seek_start(o, offset) == [o EXCEPT !.pos = offset]

\* self.obj.read_exact(buf) for a buffer of n bytes.
read_exact(o, n) ==
    IF IsSmall(o.pos) /\ Small(o.pos) <= Len(o.bytes)
          /\ n <= Len(o.bytes) - Small(o.pos)
    THEN [ok  |-> TRUE,
          buf |-> SubSeq(o.bytes, Small(o.pos) + 1, Small(o.pos) + n),
          obj |-> [o EXCEPT !.pos = Word(Small(o.pos) + n, 8)]]
    ELSE [ok  |-> FALSE,
          buf |-> <<>>,
          obj |-> IF IsSmall(o.pos) /\ Small(o.pos) <= Len(o.bytes)
                  THEN [o EXCEPT !.pos = Word(Len(o.bytes), 8)]
                  ELSE o]

SomeBytes(bytes) == [kind |-> "Some", bytes |-> bytes]

None == [kind |-> "None", bytes |-> <<>>]

\* Vec::with_capacity beyond isize::MAX: "capacity overflow".
Panicked == [kind |-> "Panic", bytes |-> <<>>]

\* read_file_content: Option<Vec<u8>>, and the reader as the call leaves it.
content_after_inflate(o, decompressed_content) ==
    IF ~decompressed_content.ok THEN [result |-> None, obj |-> o]
    ELSE [result |-> SomeBytes(decompressed_content.val), obj |-> o]

content_after_read(read) ==
    IF ~read.ok THEN [result |-> None, obj |-> read.obj]
    ELSE content_after_inflate(read.obj, Inflate(read.buf))

content_after_seek(sought, size_compressed) ==
    IF ~IsSmall(size_compressed) THEN [result |-> Panicked, obj |-> sought]
    ELSE content_after_read(read_exact(sought, Small(size_compressed)))

content_of_entry(o, file_entry) ==
    IF ~file_entry.some THEN [result |-> None, obj |-> o]
    ELSE content_after_seek(seek_start(o, file_entry.entry.offset),
                            file_entry.entry.size_compressed)

read_file_content(c, o, file_path) ==
    content_of_entry(o, get_file_entry(c, file_path))

(* ------------------------------ inputs --------------------------------- *)
(* The byte sources the archive is opened on.  Each is written down as the *)
(* fields an encoder would have laid out (`truth`), and `Encode` gives the *)
(* bytes; the reader only ever sees the bytes.                             *)

\* A path as stored (windows-1252 bytes) and as text.
PathA == [bytes |-> <<97>>, text |-> <<97>>]

PathB == [bytes |-> <<128, 98>>, text |-> <<8364, 98>>]

PathEmpty == [bytes |-> <<>>, text |-> <<>>]

\* A path no archive holds.
PathAbsent == <<122>>

QueryPaths == {PathA.text, PathB.text, PathAbsent}

\* The file contents: blob k is Deflate(Content(k)).
Content(k) == CASE k = 0 -> <<>> [] k = 1 -> <<7>> [] OTHER -> <<8, 9>>

Blob(k) == Deflate(Content(k))

Removal(path, flags) == [path |-> path, flags |-> flags, blob |-> 0]

File(path, flags, blob) == [path |-> path, flags |-> flags, blob |-> blob]

\* The records a multi-file table is made of.
Records ==
    UNION {{Removal(p, 1), Removal(p, 3), File(p, 0, 1), File(p, 2, 2)} :
           p \in {PathA, PathB}}

RecordLists == UNION {[1..n -> Records] : n \in 0..MaxEntries}

\* The table may end in the first bytes of one more record.
TailRecord == File(PathA, 0, 1)

TailLens == {0, 1, 2, 3, 7, 14}

\* The file may be cut short (-1: whole).
CutLens == {0, 10, 24, 28, 31, 32, 33, 40, 41, 45}

Magic(variant) ==
    IF variant = "good" THEN HEADER_MAGIC
    ELSE [HEADER_MAGIC EXCEPT ![Len(HEADER_MAGIC)] = 87]

HeaderBytes(t) ==
    Magic(t.magic) \o <<t.merge>> \o t.wire \o Word(t.mode, 2)
        \o <<Len(t.name)>> \o t.name

\* Single-file layout: pad, entry, then the entry's compressed content.
SingleContentAt(t) == Len(HeaderBytes(t)) + 1 + 9 + Len(t.path.bytes)

SingleSize(t) ==
    CASE t.size = "exact"    -> Word(Len(Blob(t.blob)), 4)
      [] t.size = "negative" -> Ones(4)
      [] t.size = "long"     -> Word(Len(Blob(t.blob)) + 5, 4)

SingleBody(t) ==
    <<0>> \o SingleSize(t) \o Word(Len(Content(t.blob)), 4)
        \o <<Len(t.path.bytes)>> \o t.path.bytes \o Blob(t.blob)

\* Multi-file layout: descriptor, blob 1, blob 2, then the compressed table.
Consumed(t) == Len(HeaderBytes(t)) + 8

BlobAt(t, k) == IF k = 1 THEN Consumed(t) ELSE Consumed(t) + Len(Blob(1))

TableAt(t) == Consumed(t) + Len(Blob(1)) + Len(Blob(2))

RecordBytes(t, r) ==
    <<Len(r.path.bytes)>> \o r.path.bytes \o <<r.flags>>
        \o (IF r.flags % 2 = 1 THEN <<>>
            ELSE Word(BlobAt(t, r.blob), 4) \o Word(Len(Blob(r.blob)), 4)
                     \o Word(Len(Content(r.blob)), 4))

RECURSIVE Concat(_, _, _)
Concat(t, recs, i) ==
    IF i > Len(recs) THEN <<>>
    ELSE RecordBytes(t, recs[i]) \o Concat(t, recs, i + 1)

TableBytes(t) ==
    Concat(t, t.recs, 1) \o SubSeq(RecordBytes(t, TailRecord), 1, t.tail)

MultiLen(t) == TableAt(t) + Len(Deflate(TableBytes(t)))

StoredOffset(t) ==
    CASE t.stored = "exact"    -> Word(TableAt(t), 4)
      [] t.stored = "negative" -> Ones(4)
      [] t.stored = "zero"     -> Zeros(4)
      [] t.stored = "short"    -> Word(Consumed(t) - 1, 4)
      [] t.stored = "blob"     -> Word(Consumed(t), 4)
      [] t.stored = "end"      -> Word(MultiLen(t), 4)
      [] t.stored = "past"     -> Word(MultiLen(t) + 1, 4)

StoredVariants == {"exact", "negative", "zero", "short", "blob", "end", "past"}

MultiBody(t) ==
    Word(Len(Deflate(TableBytes(t))), 4) \o StoredOffset(t)
        \o Blob(1) \o Blob(2) \o Deflate(TableBytes(t))

Whole(t) ==
    HeaderBytes(t) \o (IF t.mode = 33 THEN SingleBody(t) ELSE MultiBody(t))

Encode(t) ==
    IF t.cut < 0 \/ t.cut > Len(Whole(t)) THEN Whole(t)
    ELSE SubSeq(Whole(t), 1, t.cut)

\* A plain archive of each mode; the families below vary it.
Plain(mode) ==
    [magic |-> "good", merge |-> 0, wire |-> Word(3, 4), mode |-> mode,
     name |-> <<>>, cut |-> -1,
     path |-> PathA, blob |-> 1, size |-> "exact",
     stored |-> "exact", recs |-> <<File(PathA, 0, 1), Removal(PathB, 1)>>,
     tail |-> 0]

Names == {<<>>, <<100>>, <<195>>, <<195, 169>>}

Wires == {Zeros(4), Word(1, 4), Word(2, 4), Word(3, 4), Ones(4)}

HeaderInputs ==
    {[Plain(m) EXCEPT !.magic = g, !.merge = u, !.wire = w, !.name = n] :
        m \in {33, 48, 7}, g \in {"good", "bad"}, u \in {0, 1, 2},
        w \in Wires, n \in Names}

CutInputs == {[Plain(m) EXCEPT !.cut = k] : m \in {33, 48}, k \in CutLens}

SingleInputs ==
    {[Plain(33) EXCEPT !.wire = w, !.name = n, !.path = p, !.blob = b, !.size = z] :
        w \in {Word(2, 4), Word(3, 4)}, n \in {<<>>, <<100>>},
        p \in {PathA, PathB, PathEmpty}, b \in {0, 1, 2},
        z \in {"exact", "negative", "long"}}

OffsetInputs ==
    {[Plain(48) EXCEPT !.wire = w, !.name = n, !.stored = o] :
        w \in {Word(1, 4), Word(3, 4)}, n \in {<<>>, <<100>>},
        o \in StoredVariants}

TableInputs ==
    {[Plain(48) EXCEPT !.recs = rs, !.tail = k] :
        rs \in RecordLists, k \in TailLens}

Inputs ==
    HeaderInputs \cup CutInputs \cup SingleInputs \cup OffsetInputs \cup TableInputs

(* --------------------------- state machine ----------------------------- *)

VARIABLES
    truth,      \* the fields the source was encoded from (never read by the code)
    obj,        \* the reader: its bytes and its cursor
    status,     \* "unopened", then new's outcome: "open", "err" or "panic"
    container,  \* ThorArchive.container
    decoded,    \* the items fold_many1 decoded, each with its byte range
    last,       \* the last read_file_content call: its path and its result
    reads       \* number of read_file_content calls so far

vars == <<truth, obj, status, container, decoded, last, reads>>

NoCall == [path |-> <<>>, result |-> [kind |-> "NoCall", bytes |-> <<>>]]

Init ==
    /\ truth \in Inputs
    /\ obj = [bytes |-> Encode(truth), pos |-> Zeros(8)]
    /\ status = "unopened"
    /\ container = NoContainer
    /\ decoded = <<>>
    /\ last = NoCall
    /\ reads = 0

\* ThorArchive::new(obj), in a build with or without overflow checks.
New ==
    /\ status = "unopened"
    /\ \E overflow_checks \in BOOLEAN :
          \E r \in {new(obj, overflow_checks)} :
              /\ status' = r.status
              /\ container' = r.container
              /\ decoded' = r.decoded
              /\ obj' = r.obj
    /\ UNCHANGED <<truth, last, reads>>

\* archive.read_file_content(file_path)
ReadFileContent(file_path) ==
    /\ status = "open"
    /\ reads < MaxReads
    /\ \E r \in {read_file_content(container, obj, file_path)} :
          /\ obj' = r.obj
          /\ last' = [path |-> file_path, result |-> r.result]
    /\ reads' = reads + 1
    /\ UNCHANGED <<truth, status, container, decoded>>

Next ==
    \/ New
    \/ \E file_path \in QueryPaths : ReadFileContent(file_path)

Spec == Init /\ [][Next]_vars

(* ------------------------------ claims --------------------------------- *)

IsOpen(mode) == status = "open" /\ container.header.mode = mode

\* The source was laid out whole and in order: nothing cut, sizes and table
\* offset as the layout has them, the table made of whole records.
WellFormed ==
    /\ truth.magic = "good" /\ truth.cut = -1
    /\ truth.mode = 33 => truth.size = "exact"
    /\ truth.mode = 48 => truth.stored = "exact" /\ truth.tail = 0

\* The entry a table record stands for.
ExpectedEntry(t, r) ==
    IF r.flags % 2 = 1
    THEN ThorEntry(Zeros(8), Zeros(8), r.path.text, TRUE, Zeros(8))
    ELSE ThorEntry(Word(Len(Blob(r.blob)), 8), Word(Len(Content(r.blob)), 8),
                   r.path.text, FALSE, Word(BlobAt(t, r.blob), 8))

\* The last record of the table that names path p.
LastRecord(recs, p) ==
    recs[CHOOSE i \in 1..Len(recs) :
            /\ recs[i].path.text = p
            /\ \A j \in (i + 1)..Len(recs) : recs[j].path.text # p]

\* Where the content of path p was laid out, and what it is.
ContentAt(t, p) ==
    IF t.mode = 33 THEN SingleContentAt(t)
    ELSE BlobAt(t, LastRecord(t.recs, p).blob)

ContentOf(t, p) ==
    IF t.mode = 33 THEN Content(t.blob)
    ELSE Content(LastRecord(t.recs, p).blob)

\* The signed value of the stored table offset.
StoredIsBelowConsumed(t) == t.stored \in {"negative", "zero", "short"}

\* The source reaches the multi-file table descriptor.
HasDescriptor(t) ==
    /\ t.mode = 48 /\ t.magic = "good" /\ t.cut = -1 /\ t.name # <<195>>

\* C1: read_file_content on a removed entry gives an outcome of its own:
\* never bytes, and not the outcome of a path the archive does not hold.
C1_RemovedEntryHasItsOwnOutcome ==
    (/\ status = "open"
     /\ last.result.kind # "NoCall"
     /\ last.path \in DOMAIN container.entries
     /\ container.entries[last.path].is_removed)
    => last.result.kind \notin {"Some", "None"}

\* C2: in an archive of either mode, the offset of every entry that is not
\* removed is the absolute position of its compressed bytes in the source, and
\* read_file_content returns the entry's content.
C2_OffsetIsWhereContentBegins ==
    (status = "open" /\ WellFormed) =>
        \A p \in DOMAIN container.entries :
            ~container.entries[p].is_removed =>
                /\ container.entries[p].offset = Word(ContentAt(truth, p), 8)
                /\ last.path = p /\ last.result.kind # "NoCall"
                     => last.result = SomeBytes(ContentOf(truth, p))

\* C3: a multi-file archive opens only if the entries decoded take up the
\* whole inflated table: bytes left after the last whole entry fail the open.
C3_OpenConsumesTableExactly ==
    IsOpen("MultipleFiles") =>
        /\ decoded # <<>>
        /\ decoded[Len(decoded)].stop = Len(TableBytes(truth))

\* C4: a stored table offset below the bytes consumed up to the end of the
\* table descriptor fails the open with an error, for every signed value of
\* the offset; otherwise the slice offset is the stored one less the consumed.
C4_OffsetBelowConsumedIsAnError ==
    (status # "unopened" /\ HasDescriptor(truth)) =>
        /\ StoredIsBelowConsumed(truth) => status = "err"
        /\ status = "open" =>
              WAdd(container.table.file_table_offset, Word(Consumed(truth), 8))
                  = SignExtend(StoredOffset(truth))

\* C5: the file_count of an opened archive is the wire value less one, for
\* every wire value of the u32 field.
C5_FileCountIsWireMinusOne ==
    status = "open" =>
        WAdd(file_count(container), Word(1, 8)) = ZeroExtend(truth.wire)

\* C6 as stated: every single-file archive that opens has file_count() = 1
\* and exactly one entry, which is not removed.
C6_SingleFileCountsOne ==
    IsOpen("SingleFile") =>
        /\ file_count(container) = Word(1, 8)
        /\ Cardinality(get_entries(container)) = 1
        /\ \A e \in get_entries(container) : ~e.is_removed

\* C6 amended: every single-file archive that opens has exactly one entry,
\* which is not removed; file_count() is 1 when the header's wire count is 2.
C6_SingleFileHasOneLiveEntry ==
    IsOpen("SingleFile") =>
        /\ Cardinality(get_entries(container)) = 1
        /\ \A e \in get_entries(container) : ~e.is_removed
        /\ truth.wire = Word(2, 4) => file_count(container) = Word(1, 8)

\* C6 witness: an opened single-file archive whose wire count is 2.
C6_Witness ==
    /\ IsOpen("SingleFile") /\ truth.wire = Word(2, 4)
    /\ Cardinality(get_entries(container)) = 1

\* C7: the entry map of an opened multi-file archive has one entry per
\* distinct path of the table, and for a path that occurs more than once the
\* entry of its last record, removal or not.
C7_EntriesAreLastRecordPerPath ==
    IsOpen("MultipleFiles") =>
        /\ DOMAIN container.entries =
              {truth.recs[i].path.text : i \in 1..Len(truth.recs)}
        /\ \A p \in DOMAIN container.entries :
              container.entries[p] = ExpectedEntry(truth, LastRecord(truth.recs, p))

\* C7 witness: a removal that replaces an earlier content record of the
\* same path.
C7_Witness ==
    /\ IsOpen("MultipleFiles")
    /\ \E i, j \in 1..Len(truth.recs) :
          /\ i < j
          /\ truth.recs[i].path = truth.recs[j].path
          /\ truth.recs[i].flags % 2 = 0
          /\ truth.recs[j].flags % 2 = 1
          /\ container.entries[truth.recs[j].path.text].is_removed

C9_FlagBitZeroDecidesLayout ==
    IsOpen("MultipleFiles") =>
        /\ Len(decoded) = Len(truth.recs)
        /\ \A i \in 1..Len(decoded) :
              /\ decoded[i].start = IF i = 1 THEN 0 ELSE decoded[i - 1].stop
              /\ decoded[i].stop - decoded[i].start =
                    2 + Len(truth.recs[i].path.bytes)
                      + (IF truth.recs[i].flags % 2 = 1 THEN 0 ELSE 12)
              /\ decoded[i].entry = ExpectedEntry(truth, truth.recs[i])

\* C9 witness: a removal with other flag bits set, followed by a record
\* with content.
C9_Witness ==
    /\ IsOpen("MultipleFiles")
    /\ \E i \in 1..(Len(decoded) - 1) :
          /\ truth.recs[i].flags = 3
          /\ decoded[i].entry.is_removed
          /\ decoded[i].stop - decoded[i].start = 2 + Len(truth.recs[i].path.bytes)
          /\ ~decoded[i + 1].entry.is_removed

\* C10: ThorArchive::new ends with a container or an error value for every
\* source; it never panics.
C10_OpenNeverPanics == status # "panic"

====
